---- MODULE Spec2Model ----
(***************************************************************************)
(* Online Ticket Reservation System.                                       *)
(*                                                                         *)
(* The repository holds the ReservationSystem class twice: the console     *)
(* program ("Online Train Booking.py", src/unnamed/part_000) and the Flask *)
(* application (src/index.py).  A run of the model is a run of one of the  *)
(* two programs (variable impl); each action is one front-end handler      *)
(* (a menu choice of main_menu, a POST to /book or /cancel) together with  *)
(* the core call it makes.                                                 *)
(*                                                                         *)
(* Python dicts are modelled as sequences of records in insertion order,   *)
(* text typed by the user or posted in a form as a sequence of characters. *)
(***************************************************************************)
EXTENDS Integers, Sequences, FiniteSets, TLC

\* impl    which of the two programs runs: "console" or "web"
\* system  the program's ReservationSystem instance
\* call    the last handler call and its raw arguments
\* ret     what the core handed back to that handler
\* out     the lines that call printed
\* hist    history: the seat counts before a booking, kept while the very
\*         next call is the cancellation of the booking just made
\* twin    the other program's ReservationSystem, driven by the same calls,
\*         and what its core handed back
\* workers the request threads of the web server: where each one stands in
\*         book_ticket or cancel_booking, and its local variables
\* objects the number of Booking objects constructed by the workers
\* overlap history: some worker has acted while another was inside a request
VARIABLES impl, system, call, ret, out, hist, twin, workers, objects, overlap

vars == <<impl, system, call, ret, out, hist, twin, workers, objects, overlap>>

\* ---------------------------------------------------------------- bounds
\* No run makes more than MaxBookings successful bookings.
MaxBookings == 2

\* Searches are explored in ledgers that hold at most MaxSearchBookings
\* bookings (a search changes nothing, so this only limits where it is tried).
MaxSearchBookings == 1

\* ------------------------------------------------------- text and int()
Digits == <<"0", "1", "2", "3", "4", "5", "6", "7", "8", "9">>

IsDigit(c) == \E i \in 1..10 : Digits[i] = c

DigitVal(c) == (CHOOSE i \in 1..10 : Digits[i] = c) - 1

RECURSIVE lstrip(_)
lstrip(s) == IF s # <<>> /\ Head(s) = " " THEN lstrip(Tail(s)) ELSE s

RECURSIVE rstrip(_)
rstrip(s) ==
  IF s # <<>> /\ s[Len(s)] = " " THEN rstrip(SubSeq(s, 1, Len(s) - 1)) ELSE s

\* str.strip()
strip(s) == rstrip(lstrip(s))

RECURSIVE DigitsValue(_)
DigitsValue(s) ==
  IF s = <<>> THEN 0
  ELSE 10 * DigitsValue(SubSeq(s, 1, Len(s) - 1)) + DigitVal(s[Len(s)])

\* int(text): surrounding blanks are ignored, one optional sign, then one or
\* more decimal digits; anything else raises ValueError (ok = FALSE).
int(text) ==
  LET s    == strip(text)
      sgn  == s # <<>> /\ Head(s) \in {"+", "-"}
      body == IF sgn THEN Tail(s) ELSE s
  IN  IF body # <<>> /\ \A i \in 1..Len(body) : IsDigit(body[i])
      THEN [ok |-> TRUE,
            val |-> IF sgn /\ Head(s) = "-" THEN 0 - DigitsValue(body)
                    ELSE DigitsValue(body)]
      ELSE [ok |-> FALSE]


\* str.lower(), on the letters A..Z
UpperLetters == <<"A", "B", "C", "D", "E", "F", "G", "H", "I", "J", "K", "L", "M", "N", "O", "P", "Q", "R", "S", "T", "U", "V", "W", "X", "Y", "Z">>

LowerLetters == <<"a", "b", "c", "d", "e", "f", "g", "h", "i", "j", "k", "l", "m", "n", "o", "p", "q", "r", "s", "t", "u", "v", "w", "x", "y", "z">>

lower_char(c) ==
  IF \E k \in 1..26 : UpperLetters[k] = c
  THEN LowerLetters[CHOOSE k \in 1..26 : UpperLetters[k] = c]
  ELSE c

\* Faulty variant: the text is returned as it is.
lower_identity(s) == s

lower(s) == [i \in 1..Len(s) |-> lower_char(s[i])]

\* ------------------------------------------------------------ dict model
\* d.get(k) is not None, for a dict whose values carry their key in field f
HasTrip(trips, k) == \E i \in 1..Len(trips) : trips[i].trip_id = k

TripIndex(trips, k) == CHOOSE i \in 1..Len(trips) : trips[i].trip_id = k

\* self.trips.get(k), for a key that is present
GetTrip(trips, k) == trips[TripIndex(trips, k)]

\* self.trips[t.trip_id] = t
PutTrip(trips, t) ==
  IF HasTrip(trips, t.trip_id)
  THEN [trips EXCEPT ![TripIndex(trips, t.trip_id)] = t]
  ELSE Append(trips, t)

HasBooking(bookings, k) ==
  \E i \in 1..Len(bookings) : bookings[i].booking_id = k

BookingIndex(bookings, k) ==
  CHOOSE i \in 1..Len(bookings) : bookings[i].booking_id = k

\* self.bookings.get(k), for a key that is present
GetBooking(bookings, k) == bookings[BookingIndex(bookings, k)]

\* self.bookings[b.booking_id] = b
PutBooking(bookings, b) ==
  IF HasBooking(bookings, b.booking_id)
  THEN [bookings EXCEPT ![BookingIndex(bookings, b.booking_id)] = b]
  ELSE Append(bookings, b)

\* ------------------------------------------------------------ data model
Trip(trip_id, source, destination, date, time, total_seats, seats_available, price_per_seat) ==
  [trip_id |-> trip_id, source |-> source, destination |-> destination,
   date |-> date, time |-> time, total_seats |-> total_seats,
   seats_available |-> seats_available, price_per_seat |-> price_per_seat]

Booking(booking_id, passenger_name, passenger_age, trip_id, num_seats, total_fare, status) ==
  [booking_id |-> booking_id, passenger_name |-> passenger_name,
   passenger_age |-> passenger_age, trip_id |-> trip_id,
   num_seats |-> num_seats, total_fare |-> total_fare, status |-> status]

\* ------------------------------------------------- values handed back
None == [kind |-> "None"]

Returned(b) == [kind |-> "Booking", booking |-> b]

Bool(v) == [kind |-> "bool", val |-> v]

\* the call raised ValueError instead of returning
ValueError == [kind |-> "ValueError"]

\* the front end did not invoke the core
NotCalled == [kind |-> "NotCalled"]

\* ----------------------------------------------------- catalog seeding
add_trip(self, source, destination, date, time, total_seats, price_per_seat) ==
  LET trip == Trip(self.next_trip_id, source, destination, date, time,
                   total_seats, total_seats, price_per_seat)
  IN  [self EXCEPT !.trips = PutTrip(self.trips, trip),
                   !.next_trip_id = self.next_trip_id + 1]

\* the city names and dates of the sample data, as text
Bhopal == <<"B", "h", "o", "p", "a", "l">>

Indore == <<"I", "n", "d", "o", "r", "e">>

Delhi == <<"D", "e", "l", "h", "i">>

Mumbai == <<"M", "u", "m", "b", "a", "i">>

Dec10 == <<"2", "0", "2", "5", "-", "1", "2", "-", "1", "0">>

Dec11 == <<"2", "0", "2", "5", "-", "1", "2", "-", "1", "1">>

Dec12 == <<"2", "0", "2", "5", "-", "1", "2", "-", "1", "2">>

load_sample_data(self) ==
  LET s1 == add_trip(self, Bhopal, Indore, Dec10, "09:00", 40, 450)
      s2 == add_trip(s1, Bhopal, Indore, Dec10, "18:00", 40, 500)
      s3 == add_trip(s2, Bhopal, Delhi, Dec11, "20:00", 50, 1200)
      s4 == add_trip(s3, Indore, Bhopal, Dec11, "07:30", 40, 450)
  IN  add_trip(s4, Bhopal, Mumbai, Dec12, "21:00", 50, 1800)

\* ReservationSystem()
ReservationSystem ==
  load_sample_data([trips |-> <<>>, bookings |-> <<>>,
                    next_trip_id |-> 1, next_booking_id |-> 1])

list_all_trips(self) == self.trips

list_all_bookings(self) == self.bookings


\* ----------------------------------------------------- search operations
search_trips(self, source, destination, date) ==
  LET test(trip) == /\ lower(trip.source) = lower(source)
                    /\ lower(trip.destination) = lower(destination)
                    /\ trip.date = date
  IN  SelectSeq(self.trips, test)

\* ------------------------------------------------------ printed messages
Msg(text) == [text |-> text]

OnlySeatsMsg(available, requested) ==
  [text |-> "Only {} seats available on this trip. Requested: {}",
   available |-> available, requested |-> requested]

\* The outcome of a core call: the ledger after it, the value returned (or
\* the exception raised) and the lines it printed.
Outcome(self, r, o) == [self |-> self, ret |-> r, out |-> o]

\* ------------------------------------------- console ledger (part_000)
\* Faulty variant: the booking counter is not advanced.
Console_book_ticket_stale_id(self, passenger_name, passenger_age, trip_id, num_seats) ==
  IF ~HasTrip(self.trips, trip_id)
  THEN Outcome(self, None, <<Msg("Invalid trip ID.")>>)
  ELSE
  LET trip == GetTrip(self.trips, trip_id) IN
  IF num_seats <= 0
  THEN Outcome(self, None, <<Msg("Number of seats must be at least 1.")>>)
  ELSE
  IF trip.seats_available < num_seats
  THEN Outcome(self, None, <<OnlySeatsMsg(trip.seats_available, num_seats)>>)
  ELSE
  LET booking == Booking(self.next_booking_id, passenger_name,
                         passenger_age, trip_id, num_seats,
                         num_seats * trip.price_per_seat, "CONFIRMED")
      s1 == [self EXCEPT !.bookings = PutBooking(self.bookings, booking)]
      s3 == [s1 EXCEPT !.trips = PutTrip(s1.trips,
               [trip EXCEPT !.seats_available = trip.seats_available - num_seats])]
  IN  Outcome(s3, Returned(booking), <<>>)

\* Faulty variant: the request is compared with total_seats.
Console_book_ticket_total_check(self, passenger_name, passenger_age, trip_id, num_seats) ==
  IF ~HasTrip(self.trips, trip_id)
  THEN Outcome(self, None, <<Msg("Invalid trip ID.")>>)
  ELSE
  LET trip == GetTrip(self.trips, trip_id) IN
  IF num_seats <= 0
  THEN Outcome(self, None, <<Msg("Number of seats must be at least 1.")>>)
  ELSE
  IF trip.total_seats < num_seats
  THEN Outcome(self, None, <<OnlySeatsMsg(trip.seats_available, num_seats)>>)
  ELSE
  LET booking == Booking(self.next_booking_id, passenger_name,
                         passenger_age, trip_id, num_seats,
                         num_seats * trip.price_per_seat, "CONFIRMED")
      s1 == [self EXCEPT !.bookings = PutBooking(self.bookings, booking)]
      s2 == [s1 EXCEPT !.next_booking_id = s1.next_booking_id + 1]
      s3 == [s2 EXCEPT !.trips = PutTrip(s2.trips,
               [trip EXCEPT !.seats_available = trip.seats_available - num_seats])]
  IN  Outcome(s3, Returned(booking), <<>>)

\* Faulty variant: the seat count is validated before the trip is looked up.
Console_book_ticket_seats_first(self, passenger_name, passenger_age, trip_id, num_seats) ==
  IF num_seats <= 0
  THEN Outcome(self, None, <<Msg("Number of seats must be at least 1.")>>)
  ELSE
  IF ~HasTrip(self.trips, trip_id)
  THEN Outcome(self, None, <<Msg("Invalid trip ID.")>>)
  ELSE
  LET trip == GetTrip(self.trips, trip_id) IN
  IF trip.seats_available < num_seats
  THEN Outcome(self, None, <<OnlySeatsMsg(trip.seats_available, num_seats)>>)
  ELSE
  LET booking == Booking(self.next_booking_id, passenger_name,
                         passenger_age, trip_id, num_seats,
                         num_seats * trip.price_per_seat, "CONFIRMED")
      s1 == [self EXCEPT !.bookings = PutBooking(self.bookings, booking)]
      s2 == [s1 EXCEPT !.next_booking_id = s1.next_booking_id + 1]
      s3 == [s2 EXCEPT !.trips = PutTrip(s2.trips,
               [trip EXCEPT !.seats_available = trip.seats_available - num_seats])]
  IN  Outcome(s3, Returned(booking), <<>>)


\* Faulty variant: a request for all the seats left is refused.
Console_book_ticket_strict(self, passenger_name, passenger_age, trip_id, num_seats) ==
  IF ~HasTrip(self.trips, trip_id)
  THEN Outcome(self, None, <<Msg("Invalid trip ID.")>>)
  ELSE
  LET trip == GetTrip(self.trips, trip_id) IN
  IF num_seats <= 0
  THEN Outcome(self, None, <<Msg("Number of seats must be at least 1.")>>)
  ELSE
  IF trip.seats_available <= num_seats
  THEN Outcome(self, None, <<OnlySeatsMsg(trip.seats_available, num_seats)>>)
  ELSE
  LET booking == Booking(self.next_booking_id, passenger_name,
                         passenger_age, trip_id, num_seats,
                         num_seats * trip.price_per_seat, "CONFIRMED")
      s1 == [self EXCEPT !.bookings = PutBooking(self.bookings, booking)]
      s2 == [s1 EXCEPT !.next_booking_id = s1.next_booking_id + 1]
      s3 == [s2 EXCEPT !.trips = PutTrip(s2.trips,
               [trip EXCEPT !.seats_available = trip.seats_available - num_seats])]
  IN  Outcome(s3, Returned(booking), <<>>)

Console_book_ticket(self, passenger_name, passenger_age, trip_id, num_seats) ==
  IF ~HasTrip(self.trips, trip_id)
  THEN Outcome(self, None, <<Msg("Invalid trip ID.")>>)
  ELSE
  LET trip == GetTrip(self.trips, trip_id) IN
  IF num_seats <= 0
  THEN Outcome(self, None, <<Msg("Number of seats must be at least 1.")>>)
  ELSE
  IF trip.seats_available < num_seats
  THEN Outcome(self, None, <<OnlySeatsMsg(trip.seats_available, num_seats)>>)
  ELSE
  LET total_fare == num_seats * trip.price_per_seat
      booking    == Booking(self.next_booking_id, passenger_name,
                            passenger_age, trip_id, num_seats, total_fare,
                            "CONFIRMED")
      s1 == [self EXCEPT !.bookings = PutBooking(self.bookings, booking)]
      s2 == [s1 EXCEPT !.next_booking_id = s1.next_booking_id + 1]
      s3 == [s2 EXCEPT !.trips = PutTrip(s2.trips,
               [trip EXCEPT !.seats_available = trip.seats_available - num_seats])]
  IN  Outcome(s3, Returned(booking), <<>>)

\* Faulty variant: a cancelled booking can be cancelled again.
Console_cancel_booking_no_guard(self, booking_id) ==
  IF ~HasBooking(self.bookings, booking_id)
  THEN Outcome(self, Bool(FALSE), <<Msg("Invalid booking ID.")>>)
  ELSE
  LET booking == GetBooking(self.bookings, booking_id)
      s1 == IF HasTrip(self.trips, booking.trip_id)
            THEN LET trip == GetTrip(self.trips, booking.trip_id)
                 IN  [self EXCEPT !.trips = PutTrip(self.trips,
                       [trip EXCEPT !.seats_available =
                                      trip.seats_available + booking.num_seats])]
            ELSE self
      s2 == [s1 EXCEPT !.bookings = PutBooking(s1.bookings,
               [booking EXCEPT !.status = "CANCELLED"])]
  IN  Outcome(s2, Bool(TRUE), <<>>)


\* Faulty variant: the seats go back to the trip whose id is the booking id.
Console_cancel_booking_wrong_trip(self, booking_id) ==
  IF ~HasBooking(self.bookings, booking_id)
  THEN Outcome(self, Bool(FALSE), <<Msg("Invalid booking ID.")>>)
  ELSE
  LET booking == GetBooking(self.bookings, booking_id) IN
  IF booking.status = "CANCELLED"
  THEN Outcome(self, Bool(FALSE), <<Msg("Booking is already cancelled.")>>)
  ELSE
  LET s1 == IF HasTrip(self.trips, booking.booking_id)
            THEN LET trip == GetTrip(self.trips, booking.booking_id)
                 IN  [self EXCEPT !.trips = PutTrip(self.trips,
                       [trip EXCEPT !.seats_available =
                                      trip.seats_available + booking.num_seats])]
            ELSE self
      s2 == [s1 EXCEPT !.bookings = PutBooking(s1.bookings,
               [booking EXCEPT !.status = "CANCELLED"])]
  IN  Outcome(s2, Bool(TRUE), <<>>)

Console_cancel_booking(self, booking_id) ==
  IF ~HasBooking(self.bookings, booking_id)
  THEN Outcome(self, Bool(FALSE), <<Msg("Invalid booking ID.")>>)
  ELSE
  LET booking == GetBooking(self.bookings, booking_id) IN
  IF booking.status = "CANCELLED"
  THEN Outcome(self, Bool(FALSE), <<Msg("Booking is already cancelled.")>>)
  ELSE
  LET s1 == IF HasTrip(self.trips, booking.trip_id)
            THEN LET trip == GetTrip(self.trips, booking.trip_id)
                 IN  [self EXCEPT !.trips = PutTrip(self.trips,
                       [trip EXCEPT !.seats_available =
                                      trip.seats_available + booking.num_seats])]
            ELSE self
      s2 == [s1 EXCEPT !.bookings = PutBooking(s1.bookings,
               [booking EXCEPT !.status = "CANCELLED"])]
  IN  Outcome(s2, Bool(TRUE), <<>>)

\* ------------------------------------------------ web ledger (index.py)
\* Faulty variant: the booking is recorded but the seats are not taken.
Web_book_ticket_no_decrement(self, name, age, trip_id, seats) ==
  IF ~int(trip_id).ok THEN Outcome(self, ValueError, <<>>)
  ELSE
  IF ~HasTrip(self.trips, int(trip_id).val) THEN Outcome(self, None, <<>>)
  ELSE
  LET trip == GetTrip(self.trips, int(trip_id).val) IN
  IF ~int(seats).ok THEN Outcome(self, ValueError, <<>>)
  ELSE
  LET n == int(seats).val IN
  IF n <= 0 \/ trip.seats_available < n THEN Outcome(self, None, <<>>)
  ELSE
  IF ~int(age).ok THEN Outcome(self, ValueError, <<>>)
  ELSE
  LET booking == Booking(self.next_booking_id, name, int(age).val,
                         trip.trip_id, n, n * trip.price_per_seat, "CONFIRMED")
      s1 == [self EXCEPT !.bookings = PutBooking(self.bookings, booking)]
      s2 == [s1 EXCEPT !.next_booking_id = s1.next_booking_id + 1]
  IN  Outcome(s2, Returned(booking), <<>>)

\* Faulty variant: the request is not compared with seats_available.
Web_book_ticket_no_avail_check(self, name, age, trip_id, seats) ==
  IF ~int(trip_id).ok THEN Outcome(self, ValueError, <<>>)
  ELSE
  IF ~HasTrip(self.trips, int(trip_id).val) THEN Outcome(self, None, <<>>)
  ELSE
  LET trip == GetTrip(self.trips, int(trip_id).val) IN
  IF ~int(seats).ok THEN Outcome(self, ValueError, <<>>)
  ELSE
  LET n == int(seats).val IN
  IF n <= 0 THEN Outcome(self, None, <<>>)
  ELSE
  IF ~int(age).ok THEN Outcome(self, ValueError, <<>>)
  ELSE
  LET booking == Booking(self.next_booking_id, name, int(age).val,
                         trip.trip_id, n, n * trip.price_per_seat, "CONFIRMED")
      s1 == [self EXCEPT !.bookings = PutBooking(self.bookings, booking)]
      s2 == [s1 EXCEPT !.next_booking_id = s1.next_booking_id + 1]
      s3 == [s2 EXCEPT !.trips = PutTrip(s2.trips,
               [trip EXCEPT !.seats_available = trip.seats_available - n])]
  IN  Outcome(s3, Returned(booking), <<>>)

\* Faulty variant: only a negative seat count is refused.
Web_book_ticket_zero_ok(self, name, age, trip_id, seats) ==
  IF ~int(trip_id).ok THEN Outcome(self, ValueError, <<>>)
  ELSE
  IF ~HasTrip(self.trips, int(trip_id).val) THEN Outcome(self, None, <<>>)
  ELSE
  LET trip == GetTrip(self.trips, int(trip_id).val) IN
  IF ~int(seats).ok THEN Outcome(self, ValueError, <<>>)
  ELSE
  LET n == int(seats).val IN
  IF n < 0 \/ trip.seats_available < n THEN Outcome(self, None, <<>>)
  ELSE
  IF ~int(age).ok THEN Outcome(self, ValueError, <<>>)
  ELSE
  LET booking == Booking(self.next_booking_id, name, int(age).val,
                         trip.trip_id, n, n * trip.price_per_seat, "CONFIRMED")
      s1 == [self EXCEPT !.bookings = PutBooking(self.bookings, booking)]
      s2 == [s1 EXCEPT !.next_booking_id = s1.next_booking_id + 1]
      s3 == [s2 EXCEPT !.trips = PutTrip(s2.trips,
               [trip EXCEPT !.seats_available = trip.seats_available - n])]
  IN  Outcome(s3, Returned(booking), <<>>)


\* Faulty variant: the booking counter is advanced before the seat check, so
\* a refused request uses up an id.
Web_book_ticket_id_on_failure(self, name, age, trip_id, seats) ==
  IF ~int(trip_id).ok THEN Outcome(self, ValueError, <<>>)
  ELSE
  IF ~HasTrip(self.trips, int(trip_id).val) THEN Outcome(self, None, <<>>)
  ELSE
  LET trip == GetTrip(self.trips, int(trip_id).val) IN
  IF ~int(seats).ok THEN Outcome(self, ValueError, <<>>)
  ELSE
  LET n  == int(seats).val
      s0 == [self EXCEPT !.next_booking_id = self.next_booking_id + 1]
  IN
  IF n <= 0 \/ trip.seats_available < n THEN Outcome(s0, None, <<>>)
  ELSE
  IF ~int(age).ok THEN Outcome(s0, ValueError, <<>>)
  ELSE
  LET booking == Booking(self.next_booking_id, name, int(age).val,
                         trip.trip_id, n, n * trip.price_per_seat, "CONFIRMED")
      s1 == [s0 EXCEPT !.bookings = PutBooking(s0.bookings, booking)]
      s3 == [s1 EXCEPT !.trips = PutTrip(s1.trips,
               [trip EXCEPT !.seats_available = trip.seats_available - n])]
  IN  Outcome(s3, Returned(booking), <<>>)


\* Faulty variant: the booking records the trip's position counted from 0.
Web_book_ticket_trip_position(self, name, age, trip_id, seats) ==
  IF ~int(trip_id).ok THEN Outcome(self, ValueError, <<>>)
  ELSE
  IF ~HasTrip(self.trips, int(trip_id).val) THEN Outcome(self, None, <<>>)
  ELSE
  LET trip == GetTrip(self.trips, int(trip_id).val) IN
  IF ~int(seats).ok THEN Outcome(self, ValueError, <<>>)
  ELSE
  LET n == int(seats).val IN
  IF n <= 0 \/ trip.seats_available < n THEN Outcome(self, None, <<>>)
  ELSE
  IF ~int(age).ok THEN Outcome(self, ValueError, <<>>)
  ELSE
  LET booking == Booking(self.next_booking_id, name, int(age).val,
                         TripIndex(self.trips, trip.trip_id) - 1, n,
                         n * trip.price_per_seat, "CONFIRMED")
      s1 == [self EXCEPT !.bookings = PutBooking(self.bookings, booking)]
      s2 == [s1 EXCEPT !.next_booking_id = s1.next_booking_id + 1]
      s3 == [s2 EXCEPT !.trips = PutTrip(s2.trips,
               [trip EXCEPT !.seats_available = trip.seats_available - n])]
  IN  Outcome(s3, Returned(booking), <<>>)

\* Faulty variant: the seats are taken before the age is converted.
Web_book_ticket_late_age(self, name, age, trip_id, seats) ==
  IF ~int(trip_id).ok THEN Outcome(self, ValueError, <<>>)
  ELSE
  IF ~HasTrip(self.trips, int(trip_id).val) THEN Outcome(self, None, <<>>)
  ELSE
  LET trip == GetTrip(self.trips, int(trip_id).val) IN
  IF ~int(seats).ok THEN Outcome(self, ValueError, <<>>)
  ELSE
  LET n == int(seats).val IN
  IF n <= 0 \/ trip.seats_available < n THEN Outcome(self, None, <<>>)
  ELSE
  LET s0 == [self EXCEPT !.trips = PutTrip(self.trips,
               [trip EXCEPT !.seats_available = trip.seats_available - n])]
  IN
  IF ~int(age).ok THEN Outcome(s0, ValueError, <<>>)
  ELSE
  LET booking == Booking(self.next_booking_id, name, int(age).val,
                         trip.trip_id, n, n * trip.price_per_seat, "CONFIRMED")
      s1 == [s0 EXCEPT !.bookings = PutBooking(s0.bookings, booking)]
      s2 == [s1 EXCEPT !.next_booking_id = s1.next_booking_id + 1]
  IN  Outcome(s2, Returned(booking), <<>>)

\* The arguments are the posted form fields, still text.
Web_book_ticket(self, name, age, trip_id, seats) ==
  IF ~int(trip_id).ok THEN Outcome(self, ValueError, <<>>)
  ELSE
  IF ~HasTrip(self.trips, int(trip_id).val) THEN Outcome(self, None, <<>>)
  ELSE
  LET trip == GetTrip(self.trips, int(trip_id).val) IN
  IF ~int(seats).ok THEN Outcome(self, ValueError, <<>>)
  ELSE
  LET n == int(seats).val IN
  IF n <= 0 \/ trip.seats_available < n THEN Outcome(self, None, <<>>)
  ELSE
  LET fare == n * trip.price_per_seat IN
  IF ~int(age).ok THEN Outcome(self, ValueError, <<>>)
  ELSE
  LET booking == Booking(self.next_booking_id, name, int(age).val,
                         trip.trip_id, n, fare, "CONFIRMED")
      s1 == [self EXCEPT !.bookings = PutBooking(self.bookings, booking)]
      s2 == [s1 EXCEPT !.next_booking_id = s1.next_booking_id + 1]
      s3 == [s2 EXCEPT !.trips = PutTrip(s2.trips,
               [trip EXCEPT !.seats_available = trip.seats_available - n])]
  IN  Outcome(s3, Returned(booking), <<>>)

\* Faulty variant: the seats of the cancelled booking are not given back.
Web_cancel_booking_no_restore(self, booking_id) ==
  IF ~int(booking_id).ok THEN Outcome(self, ValueError, <<>>)
  ELSE
  IF ~HasBooking(self.bookings, int(booking_id).val)
  THEN Outcome(self, Bool(FALSE), <<>>)
  ELSE
  LET booking == GetBooking(self.bookings, int(booking_id).val) IN
  IF booking.status = "CANCELLED" THEN Outcome(self, Bool(FALSE), <<>>)
  ELSE
  Outcome([self EXCEPT !.bookings = PutBooking(self.bookings,
             [booking EXCEPT !.status = "CANCELLED"])], Bool(TRUE), <<>>)

\* Faulty variant: an unknown booking id is reported as cancelled.
Web_cancel_booking_unknown_ok(self, booking_id) ==
  IF ~int(booking_id).ok THEN Outcome(self, ValueError, <<>>)
  ELSE
  IF ~HasBooking(self.bookings, int(booking_id).val)
  THEN Outcome(self, Bool(TRUE), <<>>)
  ELSE
  LET booking == GetBooking(self.bookings, int(booking_id).val) IN
  IF booking.status = "CANCELLED" THEN Outcome(self, Bool(FALSE), <<>>)
  ELSE
  LET s1 == IF HasTrip(self.trips, booking.trip_id)
            THEN LET trip == GetTrip(self.trips, booking.trip_id)
                 IN  [self EXCEPT !.trips = PutTrip(self.trips,
                       [trip EXCEPT !.seats_available =
                                      trip.seats_available + booking.num_seats])]
            ELSE self
      s2 == [s1 EXCEPT !.bookings = PutBooking(s1.bookings,
               [booking EXCEPT !.status = "CANCELLED"])]
  IN  Outcome(s2, Bool(TRUE), <<>>)

\* Faulty variant: a cancelled booking is dropped from the dict.
Web_cancel_booking_delete(self, booking_id) ==
  IF ~int(booking_id).ok THEN Outcome(self, ValueError, <<>>)
  ELSE
  IF ~HasBooking(self.bookings, int(booking_id).val)
  THEN Outcome(self, Bool(FALSE), <<>>)
  ELSE
  LET booking == GetBooking(self.bookings, int(booking_id).val) IN
  IF booking.status = "CANCELLED" THEN Outcome(self, Bool(FALSE), <<>>)
  ELSE
  LET s1 == IF HasTrip(self.trips, booking.trip_id)
            THEN LET trip == GetTrip(self.trips, booking.trip_id)
                 IN  [self EXCEPT !.trips = PutTrip(self.trips,
                       [trip EXCEPT !.seats_available =
                                      trip.seats_available + booking.num_seats])]
            ELSE self
      keep(b) == b.booking_id # booking.booking_id
      s2 == [s1 EXCEPT !.bookings = SelectSeq(s1.bookings, keep)]
  IN  Outcome(s2, Bool(TRUE), <<>>)

Web_cancel_booking(self, booking_id) ==
  IF ~int(booking_id).ok THEN Outcome(self, ValueError, <<>>)
  ELSE
  IF ~HasBooking(self.bookings, int(booking_id).val)
  THEN Outcome(self, Bool(FALSE), <<>>)
  ELSE
  LET booking == GetBooking(self.bookings, int(booking_id).val) IN
  IF booking.status = "CANCELLED" THEN Outcome(self, Bool(FALSE), <<>>)
  ELSE
  LET s1 == IF HasTrip(self.trips, booking.trip_id)
            THEN LET trip == GetTrip(self.trips, booking.trip_id)
                 IN  [self EXCEPT !.trips = PutTrip(self.trips,
                       [trip EXCEPT !.seats_available =
                                      trip.seats_available + booking.num_seats])]
            ELSE self
      s2 == [s1 EXCEPT !.bookings = PutBooking(s1.bookings,
               [booking EXCEPT !.status = "CANCELLED"])]
  IN  Outcome(s2, Bool(TRUE), <<>>)

\* ---------------------------------------------------------- front ends
\* main_menu, choice "3": the three numbers are parsed before the core is
\* called; a parse failure prints a line and returns to the menu.
main_menu_book(self, name, age, trip_id, num_seats) ==
  IF ~int(strip(age)).ok
  THEN Outcome(self, NotCalled, <<Msg("Invalid age.")>>)
  ELSE
  IF ~int(strip(trip_id)).ok \/ ~int(strip(num_seats)).ok
  THEN Outcome(self, NotCalled,
               <<Msg("Trip ID and number of seats must be integers.")>>)
  ELSE
  LET r == Console_book_ticket(self, strip(name), int(strip(age)).val,
                               int(strip(trip_id)).val,
                               int(strip(num_seats)).val)
  IN  IF r.ret.kind = "Booking"
      THEN [r EXCEPT !.out =
              r.out \o <<Msg("Booking successful! Your ticket details:")>>]
      ELSE r

\* main_menu, choice "5"
main_menu_cancel(self, booking_id) ==
  IF ~int(strip(booking_id)).ok
  THEN Outcome(self, NotCalled, <<Msg("Booking ID must be an integer.")>>)
  ELSE
  LET r == Console_cancel_booking(self, int(strip(booking_id)).val)
  IN  IF r.ret = Bool(TRUE)
      THEN [r EXCEPT !.out = r.out \o <<Msg("Booking cancelled successfully.")>>]
      ELSE r


\* the list of trips handed back by search_trips
Trips(ts) == [kind |-> "Trips", trips |-> ts]

\* main_menu, choice "2"
main_menu_search(self, src, dest, date) ==
  LET results == search_trips(self, strip(src), strip(dest), strip(date))
  IN  IF results = <<>>
      THEN Outcome(self, Trips(results), <<Msg("No matching trips found.")>>)
      ELSE Outcome(self, Trips(results), <<Msg("Matching trips:")>>)

\* POST /book
book(self, name, age, trip_id, seats) ==
  Web_book_ticket(self, name, age, trip_id, seats)

\* POST /cancel
cancel(self, booking_id) == Web_cancel_booking(self, booking_id)

\* --------------------------------------------------------------- inputs
Names == { <<"A", "s", "h", "a">> }

AgeTexts == { <<"3", "0">>, <<"x">> }

TripIdTexts == { <<"0">>, <<"1">>, <<"3">>, <<"6">>, <<"x">> }

SeatTexts == { <<"-", "1">>, <<"0">>, <<"2", "5">>, <<"4", "0">>, <<"x">> }

BookingIdTexts ==
  { <<"0">>, <<"1">>, <<"2">>, <<" ", "3">>, <<"4">>, <<"5">>, <<"x">> }

SourceTexts ==
  { <<"b", "h", "o", "p", "a", "l">>, <<"B", "H", "O", "P", "A", "L", " ">>,
    <<"B", "h", "o", "p", "a">> }

DestinationTexts ==
  { <<"i", "n", "d", "o", "r", "e">>, <<"D", "e", "l", "h", "i">>,
    <<"I", "n", "d", "o", "r", "e", "x">> }

DateTexts == { Dec10, Dec11, <<"2", "0", "2", "5", "-", "1", "2">> }


\* ------------------------------------------- the web ledger, line by line
\* The single module-level system of index.py served by several request
\* threads.  A worker runs book_ticket or cancel_booking one source line at
\* a time (an augmented assignment is a load followed by a store); other
\* workers may run between two lines.
Workers == {1, 2}

Idle == [pc |-> "idle"]

\* a worker inside a request: its position, the posted form, and the locals
\* trip (the Trip object, by its key), seats, booking and the value loaded by
\* an augmented assignment
Frame(pc, req, trip, seats, booking, tmp) ==
  [pc |-> pc, req |-> req, trip |-> trip, seats |-> seats,
   booking |-> booking, tmp |-> tmp]

\* what one line does: the ledger and the worker after it, and the number of
\* Booking objects constructed so far
Line(self, t, n) == [self |-> self, t |-> t, objects |-> n]

\* a Booking object: the record and the identity of the object
Object(b, id) == ("obj" :> id) @@ b

\* Faulty variant: the store is lost.
set_seats_available_lost(self, trip_id, value) == self

\* trip.seats_available = value, for the trip object with that key
set_seats_available(self, trip_id, value) ==
  [self EXCEPT !.trips = PutTrip(self.trips,
     [GetTrip(self.trips, trip_id) EXCEPT !.seats_available = value])]

\* one line of book_ticket
book_ticket_line(self, t, n) ==
  CASE t.pc = "book_68" ->
         IF ~int(t.req.trip_id).ok \/ ~HasTrip(self.trips, int(t.req.trip_id).val)
         THEN Line(self, Idle, n)
         ELSE Line(self, [t EXCEPT !.pc = "book_71",
                                   !.trip = int(t.req.trip_id).val], n)
    [] t.pc = "book_71" ->
         IF ~int(t.req.seats).ok
         THEN Line(self, Idle, n)
         ELSE IF \/ int(t.req.seats).val <= 0
                 \/ GetTrip(self.trips, t.trip).seats_available
                      < int(t.req.seats).val
              THEN Line(self, Idle, n)
              ELSE Line(self, [t EXCEPT !.pc = "book_75",
                                        !.seats = int(t.req.seats).val], n)
    [] t.pc = "book_75" ->
         IF ~int(t.req.age).ok
         THEN Line(self, Idle, n)
         ELSE LET fare == t.seats * GetTrip(self.trips, t.trip).price_per_seat
                  b == Booking(self.next_booking_id, t.req.name,
                               int(t.req.age).val, t.trip, t.seats, fare,
                               "CONFIRMED")
              IN  Line(self, [t EXCEPT !.pc = "book_85",
                                       !.booking = Object(b, n + 1)], n + 1)
    [] t.pc = "book_85" ->
         Line([self EXCEPT !.bookings = PutBooking(self.bookings, t.booking)],
              [t EXCEPT !.pc = "book_86"], n)
    [] t.pc = "book_86" ->
         Line(self, [t EXCEPT !.pc = "book_86_store",
                              !.tmp = self.next_booking_id], n)
    [] t.pc = "book_86_store" ->
         Line([self EXCEPT !.next_booking_id = t.tmp + 1],
              [t EXCEPT !.pc = "book_87"], n)
    [] t.pc = "book_87" ->
         Line(self, [t EXCEPT !.pc = "book_87_store",
                      !.tmp = GetTrip(self.trips, t.trip).seats_available], n)
    [] t.pc = "book_87_store" ->
         Line(set_seats_available(self, t.trip, t.tmp - t.seats), Idle, n)

\* one line of cancel_booking
cancel_booking_line(self, t, n) ==
  CASE t.pc = "cancel_94" ->
         IF \/ ~int(t.req.booking_id).ok
            \/ ~HasBooking(self.bookings, int(t.req.booking_id).val)
         THEN Line(self, Idle, n)
         ELSE LET booking == GetBooking(self.bookings,
                                        int(t.req.booking_id).val)
              IN  IF booking.status = "CANCELLED"
                  THEN Line(self, Idle, n)
                  ELSE Line(self, [t EXCEPT !.pc = "cancel_97",
                                            !.booking = booking], n)
    [] t.pc = "cancel_97" ->
         IF HasTrip(self.trips, t.booking.trip_id)
         THEN Line(self, [t EXCEPT !.pc = "cancel_99_store",
                  !.trip = t.booking.trip_id,
                  !.tmp = GetTrip(self.trips, t.booking.trip_id).seats_available],
                  n)
         ELSE Line(self, [t EXCEPT !.pc = "cancel_100"], n)
    [] t.pc = "cancel_99_store" ->
         Line(set_seats_available(self, t.trip, t.tmp + t.booking.num_seats),
              [t EXCEPT !.pc = "cancel_100"], n)
    [] t.pc = "cancel_100" ->
         \* the store goes to the object the worker holds, which is in the
         \* dict unless its key was assigned another object meanwhile
         IF /\ HasBooking(self.bookings, t.booking.booking_id)
            /\ GetBooking(self.bookings, t.booking.booking_id).obj
                 = t.booking.obj
         THEN Line([self EXCEPT !.bookings = PutBooking(self.bookings,
                      [GetBooking(self.bookings, t.booking.booking_id)
                         EXCEPT !.status = "CANCELLED"])], Idle, n)
         ELSE Line(self, Idle, n)

\* the forms posted to the worker threads
WorkerTripIdTexts == { <<"1">> }

WorkerSeatTexts == { <<"2", "5">> }

WorkerBookingIdTexts == { <<"1">>, <<"2">> }

\* ------------------------------------------------------- state machine
\* seats_available of every trip, in catalog order
SeatsOf(self) == [i \in 1..Len(self.trips) |-> self.trips[i].seats_available]

\* the raw argument is an integer and denotes n
ArgIs(text, n) == int(text).ok /\ int(text).val = n

BookCall(name, age, trip_id, seats) ==
  [op |-> "book", name |-> name, age |-> age, trip_id |-> trip_id,
   seats |-> seats]

CancelCall(booking_id) == [op |-> "cancel", booking_id |-> booking_id]

SearchCall(src, dest, date) ==
  [op |-> "search", source |-> src, destination |-> dest, date |-> date]

NoCall == [op |-> "none"]

Init ==
  /\ impl \in {"console", "web"}
  /\ system = ReservationSystem
  /\ call = NoCall
  /\ ret = NotCalled
  /\ out = <<>>
  /\ hist = [kind |-> "none"]
  /\ twin = [system |-> ReservationSystem, ret |-> NotCalled]
  /\ workers = [w \in Workers |-> Idle]
  /\ objects = 0
  /\ overlap = FALSE

\* the handler's outcome r becomes the next state; o is the outcome of the
\* other program's handler for the same call c
Apply(r, c, o) ==
  /\ r.self.next_booking_id <= MaxBookings + 1
  /\ o.self.next_booking_id <= MaxBookings + 1
  /\ twin' = [system |-> o.self, ret |-> o.ret]
  /\ system' = r.self
  /\ ret' = r.ret
  /\ out' = r.out
  /\ call' = c
  /\ hist' = IF r.ret.kind = "Booking"
             THEN [kind |-> "booked", before |-> SeatsOf(system)]
             ELSE IF /\ c.op = "cancel"
                     /\ hist.kind = "booked"
                     /\ ArgIs(c.booking_id, ret.booking.booking_id)
                  THEN [kind |-> "roundtrip", before |-> hist.before]
                  ELSE [kind |-> "none"]
  /\ UNCHANGED <<impl, workers, objects, overlap>>

ConsoleBook ==
  /\ impl = "console"
  /\ \E name \in Names, age \in AgeTexts, trip_id \in TripIdTexts,
        seats \in SeatTexts :
       Apply(main_menu_book(system, name, age, trip_id, seats),
             BookCall(name, age, trip_id, seats),
             book(twin.system, name, age, trip_id, seats))

ConsoleCancel ==
  /\ impl = "console"
  /\ \E booking_id \in BookingIdTexts :
       Apply(main_menu_cancel(system, booking_id), CancelCall(booking_id),
             cancel(twin.system, booking_id))

\* the web application has no search route: its ledger is left alone
ConsoleSearch ==
  /\ impl = "console"
  /\ Len(system.bookings) <= MaxSearchBookings
  /\ \E src \in SourceTexts, dest \in DestinationTexts, date \in DateTexts :
       Apply(main_menu_search(system, src, dest, date),
             SearchCall(src, dest, date),
             Outcome(twin.system, twin.ret, <<>>))

WebBook ==
  /\ impl = "web"
  /\ \E name \in Names, age \in AgeTexts, trip_id \in TripIdTexts,
        seats \in SeatTexts :
       Apply(book(system, name, age, trip_id, seats),
             BookCall(name, age, trip_id, seats),
             main_menu_book(twin.system, name, age, trip_id, seats))

WebCancel ==
  /\ impl = "web"
  /\ \E booking_id \in BookingIdTexts :
       Apply(cancel(system, booking_id), CancelCall(booking_id),
             main_menu_cancel(twin.system, booking_id))


\* ----------------------------------------------- the threaded web server
InitThreads == Init /\ impl = "web"

\* worker w acts; the history notes whether another worker is inside a request
Act(w, line) ==
  /\ system' = line.self
  /\ workers' = [workers EXCEPT ![w] = line.t]
  /\ objects' = line.objects
  /\ overlap' = (overlap \/ \E v \in Workers \ {w} : workers[v].pc # "idle")
  /\ UNCHANGED <<impl, call, ret, out, hist, twin>>

\* POST /book reaches worker w
BeginBook(w) ==
  /\ workers[w].pc = "idle"
  /\ system.next_booking_id <= MaxBookings
  /\ \E name \in Names, trip_id \in WorkerTripIdTexts,
        seats \in WorkerSeatTexts :
       Act(w, Line(system,
                   Frame("book_68", BookCall(name, <<"3", "0">>, trip_id, seats),
                         0, 0, None, 0),
                   objects))

\* POST /cancel reaches worker w
BeginCancel(w) ==
  /\ workers[w].pc = "idle"
  /\ \E booking_id \in WorkerBookingIdTexts :
       Act(w, Line(system,
                   Frame("cancel_94", CancelCall(booking_id), 0, 0, None, 0),
                   objects))

BookLine(w) ==
  /\ workers[w].pc \in {"book_68", "book_71", "book_75", "book_85", "book_86",
                        "book_86_store", "book_87", "book_87_store"}
  /\ Act(w, book_ticket_line(system, workers[w], objects))

CancelLine(w) ==
  /\ workers[w].pc \in {"cancel_94", "cancel_97", "cancel_99_store",
                        "cancel_100"}
  /\ Act(w, cancel_booking_line(system, workers[w], objects))

NextThreads ==
  \E w \in Workers : BeginBook(w) \/ BeginCancel(w) \/ BookLine(w) \/ CancelLine(w)

SpecThreads == InitThreads /\ [][NextThreads]_vars

Next ==
  ConsoleBook \/ ConsoleCancel \/ ConsoleSearch \/ WebBook \/ WebCancel

Spec == Init /\ [][Next]_vars

\* ================================================================ claims
\* The integer arguments a handler call hands to the core.
TripArg(c) == int(c.trip_id)

SeatArg(c) == int(c.seats)

BookingArg(c) == int(c.booking_id)

\* The call reaches book_ticket: the console parses age, trip id and seat
\* count first and calls the core only when all three are integers; the web
\* handler always calls it.
ReachesBook(c) ==
  /\ c.op = "book"
  /\ impl = "console" => int(c.age).ok /\ TripArg(c).ok /\ SeatArg(c).ok

\* The call reaches cancel_booking.
ReachesCancel(c) ==
  /\ c.op = "cancel"
  /\ impl = "console" => BookingArg(c).ok

\* The console tells its failures apart by the line it prints; the web
\* ledger prints nothing.
Printed(line) == impl = "console" => out' = <<line>>

RECURSIVE ConfirmedSeats(_, _)
\* sum of num_seats over the CONFIRMED bookings of trip tid
ConfirmedSeats(bookings, tid) ==
  IF bookings = <<>> THEN 0
  ELSE (IF Head(bookings).trip_id = tid /\ Head(bookings).status = "CONFIRMED"
        THEN Head(bookings).num_seats ELSE 0)
       + ConfirmedSeats(Tail(bookings), tid)

\* C1 -- seat conservation: for every trip, seats_available plus the seats of
\* its CONFIRMED bookings equals total_seats, in every reachable state.
C1_SeatConservation ==
  \A i \in 1..Len(system.trips) :
    system.trips[i].seats_available
      + ConfirmedSeats(system.bookings, system.trips[i].trip_id)
    = system.trips[i].total_seats

\* a repeated cancellation has just been refused while the trip holds both a
\* cancelled and a confirmed booking
C1_Witness ==
  /\ call.op = "cancel" /\ ret = Bool(FALSE)
  /\ \E i, j \in 1..Len(system.bookings) :
       /\ system.bookings[i].status = "CANCELLED"
       /\ ArgIs(call.booking_id, system.bookings[i].booking_id)
       /\ system.bookings[j].status = "CONFIRMED"
       /\ system.bookings[j].trip_id = system.bookings[i].trip_id

\* C2 -- no overselling, no over-restoring: 0 <= seats_available <=
\* total_seats for every trip in every reachable state.
C2_SeatsInRange ==
  \A i \in 1..Len(system.trips) :
    /\ 0 <= system.trips[i].seats_available
    /\ system.trips[i].seats_available <= system.trips[i].total_seats

\* a booking has just been refused on a sold-out trip, after a cancellation
\* elsewhere in the ledger
C2_Witness ==
  /\ call.op = "book" /\ ret = None
  /\ TripArg(call).ok /\ HasTrip(system.trips, TripArg(call).val)
  /\ GetTrip(system.trips, TripArg(call).val).seats_available = 0
  /\ SeatArg(call).ok /\ SeatArg(call).val > 0
  /\ \E j \in 1..Len(system.bookings) : system.bookings[j].status = "CANCELLED"

\* C3 -- cancelling a booking that is already CANCELLED returns failure (the
\* console naming it "already cancelled") and changes nothing in the ledger.
C3_CancelCancelledIsNoOp ==
  [][ ( /\ ReachesCancel(call')
        /\ BookingArg(call').ok
        /\ HasBooking(system.bookings, BookingArg(call').val)
        /\ GetBooking(system.bookings, BookingArg(call').val).status
             = "CANCELLED" )
      => ( /\ ret' = Bool(FALSE)
           /\ Printed(Msg("Booking is already cancelled."))
           /\ system' = system ) ]_vars

\* a second cancellation of a booking has just been refused
C3_Witness ==
  /\ call.op = "cancel" /\ ret = Bool(FALSE)
  /\ BookingArg(call).ok
  /\ HasBooking(system.bookings, BookingArg(call).val)
  /\ GetBooking(system.bookings, BookingArg(call).val).status = "CANCELLED"
  /\ GetBooking(system.bookings, BookingArg(call).val).num_seats > 0

\* C4 -- round trip: a successful booking immediately followed by the
\* cancellation of the booking it returned succeeds and leaves every trip's
\* seats_available at its value before the booking.
C4_RoundTrip ==
  hist.kind = "roundtrip"
    => /\ ret = Bool(TRUE)
       /\ SeatsOf(system) = hist.before

\* a round trip has just been made on a trip that another CONFIRMED booking
\* already occupied
C4_Witness ==
  /\ hist.kind = "roundtrip"
  /\ call.op = "cancel" /\ BookingArg(call).ok
  /\ \E j \in 1..Len(system.bookings) :
       /\ system.bookings[j].status = "CONFIRMED"
       /\ system.bookings[j].trip_id
            = GetBooking(system.bookings, BookingArg(call).val).trip_id

\* C5 -- a successful book_ticket returns a CONFIRMED booking with the id
\* next_booking_id had before the call, the requested trip and seat count and
\* fare = seats x price_per_seat; the booking is stored under that id, the
\* counter advances by one and the trip loses exactly the booked seats.
C5_BookingEffect ==
  [][ (call'.op = "book" /\ ret'.kind = "Booking")
      => LET b   == ret'.booking
             tid == TripArg(call').val
             n   == SeatArg(call').val
         IN  /\ TripArg(call').ok /\ SeatArg(call').ok
             /\ HasTrip(system.trips, tid)
             /\ b.booking_id = system.next_booking_id
             /\ b.trip_id = tid
             /\ b.num_seats = n
             /\ b.total_fare = n * GetTrip(system.trips, tid).price_per_seat
             /\ b.status = "CONFIRMED"
             /\ ~HasBooking(system.bookings, b.booking_id)
             /\ HasBooking(system'.bookings, b.booking_id)
             /\ GetBooking(system'.bookings, b.booking_id) = b
             /\ Len(system'.bookings) = Len(system.bookings) + 1
             /\ system'.next_booking_id = system.next_booking_id + 1
             /\ GetTrip(system'.trips, tid).seats_available
                  = GetTrip(system.trips, tid).seats_available - n ]_vars

\* a booking has just succeeded on a trip that already had a booking
C5_Witness ==
  /\ call.op = "book" /\ ret.kind = "Booking"
  /\ ret.booking.booking_id >= 2
  /\ ret.booking.num_seats = 25
  /\ ret.booking.total_fare = 25 * 1200
  /\ \E j \in 1..Len(system.bookings) :
       /\ system.bookings[j].booking_id # ret.booking.booking_id
       /\ system.bookings[j].trip_id = ret.booking.trip_id

\* C6 -- book_ticket on an existing trip for more seats than it has left
\* fails (the console reporting the seats left) and changes nothing: no seat
\* taken, no booking created, next_booking_id not advanced.
C6_InsufficientSeats ==
  [][ ( /\ ReachesBook(call')
        /\ TripArg(call').ok /\ SeatArg(call').ok
        /\ HasTrip(system.trips, TripArg(call').val)
        /\ SeatArg(call').val
             > GetTrip(system.trips, TripArg(call').val).seats_available )
      => ( /\ ret' = None
           /\ Printed(OnlySeatsMsg(
                GetTrip(system.trips, TripArg(call').val).seats_available,
                SeatArg(call').val))
           /\ system' = system ) ]_vars

\* a request has just been refused on a trip that is partly booked but not
\* sold out
C6_Witness ==
  /\ ReachesBook(call) /\ ret = None
  /\ TripArg(call).ok /\ SeatArg(call).ok
  /\ HasTrip(system.trips, TripArg(call).val)
  /\ GetTrip(system.trips, TripArg(call).val).seats_available > 0
  /\ GetTrip(system.trips, TripArg(call).val).seats_available
       < GetTrip(system.trips, TripArg(call).val).total_seats
  /\ SeatArg(call).val
       > GetTrip(system.trips, TripArg(call).val).seats_available

\* C7 (as claimed) -- book_ticket with a seat count of 0 or less fails with
\* InvalidSeatCount whichever trip id is given, and mutates nothing.
C7_AlwaysInvalidSeatCount ==
  [][ ( /\ ReachesBook(call')
        /\ TripArg(call').ok /\ SeatArg(call').ok
        /\ SeatArg(call').val <= 0 )
      => ( /\ ret' = None
           /\ Printed(Msg("Number of seats must be at least 1."))
           /\ system' = system ) ]_vars

\* C7 (amended) -- book_ticket with a seat count of 0 or less always fails
\* and mutates nothing, whatever the trip's seats_available; the console
\* reports InvalidSeatCount when the trip id resolves and TripNotFound when
\* it does not.
C7_NonPositiveSeatsFail ==
  [][ ( /\ ReachesBook(call')
        /\ TripArg(call').ok /\ SeatArg(call').ok
        /\ SeatArg(call').val <= 0 )
      => ( /\ ret' = None
           /\ system' = system
           /\ HasTrip(system.trips, TripArg(call').val)
                => Printed(Msg("Number of seats must be at least 1."))
           /\ ~HasTrip(system.trips, TripArg(call').val)
                => Printed(Msg("Invalid trip ID.")) ) ]_vars

\* a request for 0 or fewer seats has just been refused on a sold-out trip
C7_Witness ==
  /\ ReachesBook(call) /\ ret = None
  /\ TripArg(call).ok /\ SeatArg(call).ok
  /\ SeatArg(call).val <= 0
  /\ HasTrip(system.trips, TripArg(call).val)
  /\ GetTrip(system.trips, TripArg(call).val).seats_available = 0

\* C8 -- book_ticket with a trip id that resolves to no trip fails (the
\* console reporting an invalid trip id) and leaves the ledger unchanged.
C8_TripNotFound ==
  [][ ( /\ ReachesBook(call')
        /\ TripArg(call').ok
        /\ ~HasTrip(system.trips, TripArg(call').val) )
      => ( /\ ret' = None
           /\ Printed(Msg("Invalid trip ID."))
           /\ system' = system ) ]_vars

\* an unknown trip id has just been refused in a ledger that holds bookings
C8_Witness ==
  /\ ReachesBook(call) /\ ret = None
  /\ TripArg(call).ok
  /\ ~HasTrip(system.trips, TripArg(call).val)
  /\ Len(system.bookings) >= 1

\* C9 -- cancel_booking with an id that resolves to no booking fails (the
\* console reporting an invalid booking id) and leaves the ledger unchanged.
C9_BookingNotFound ==
  [][ ( /\ ReachesCancel(call')
        /\ BookingArg(call').ok
        /\ ~HasBooking(system.bookings, BookingArg(call').val) )
      => ( /\ ret' = Bool(FALSE)
           /\ Printed(Msg("Invalid booking ID."))
           /\ system' = system ) ]_vars

\* an unknown booking id has just been refused while a CONFIRMED booking
\* exists
C9_Witness ==
  /\ ReachesCancel(call) /\ ret = Bool(FALSE)
  /\ BookingArg(call).ok
  /\ ~HasBooking(system.bookings, BookingArg(call).val)
  /\ \E j \in 1..Len(system.bookings) : system.bookings[j].status = "CONFIRMED"

\* C10 -- booking status is one-directional: a booking enters the ledger
\* CONFIRMED; a CANCELLED booking stays CANCELLED; cancel_booking succeeds
\* only on a CONFIRMED booking, which it leaves CANCELLED (so at most once per
\* id); and list_all_bookings keeps every booking, at its place.
C10_StatusOneWay ==
  [][ /\ \A j \in 1..Len(list_all_bookings(system')) :
           ~HasBooking(system.bookings, system'.bookings[j].booking_id)
             => system'.bookings[j].status = "CONFIRMED"
      /\ \A i \in 1..Len(list_all_bookings(system)) :
           /\ i <= Len(list_all_bookings(system'))
           /\ list_all_bookings(system')[i].booking_id
                = list_all_bookings(system)[i].booking_id
           /\ system.bookings[i].status = "CANCELLED"
                => system'.bookings[i].status = "CANCELLED"
      /\ (call'.op = "cancel" /\ ret' = Bool(TRUE))
           => /\ BookingArg(call').ok
              /\ HasBooking(system.bookings, BookingArg(call').val)
              /\ GetBooking(system.bookings, BookingArg(call').val).status
                   = "CONFIRMED"
              /\ GetBooking(system'.bookings, BookingArg(call').val).status
                   = "CANCELLED" ]_vars

\* a booking has just been made on a trip whose earlier booking is CANCELLED
\* and still listed
C10_Witness ==
  /\ call.op = "book" /\ ret.kind = "Booking"
  /\ \E i \in 1..Len(list_all_bookings(system)) :
       /\ system.bookings[i].status = "CANCELLED"
       /\ system.bookings[i].booking_id < ret.booking.booking_id
       /\ system.bookings[i].trip_id = ret.booking.trip_id

\* C11 -- booking ids are unique and sequential from 1: the k-th successful
\* book_ticket returns id k, the keys of bookings are exactly
\* 1..next_booking_id-1, next_booking_id never decreases, and a failed
\* book_ticket or any cancel_booking leaves it unchanged.
C11_SequentialIds ==
  /\ [](/\ Len(system.bookings) = system.next_booking_id - 1
        /\ \A k \in 1..Len(system.bookings) :
             system.bookings[k].booking_id = k)
  /\ [][ /\ system'.next_booking_id >= system.next_booking_id
         /\ ret'.kind = "Booking"
              => /\ ret'.booking.booking_id = Len(system.bookings) + 1
                 /\ system'.next_booking_id = system.next_booking_id + 1
         /\ ret'.kind # "Booking"
              => system'.next_booking_id = system.next_booking_id ]_vars

\* the second booking has just been made in a ledger that holds a cancelled
\* booking
C11_Witness ==
  /\ call.op = "book" /\ ret.kind = "Booking"
  /\ ret.booking.booking_id = 2
  /\ system.next_booking_id = 3
  /\ \E i \in 1..Len(system.bookings) : system.bookings[i].status = "CANCELLED"

\* every argument of the call is the text of an integer
IntegerCall(c) ==
  \/ c.op = "book" /\ int(c.age).ok /\ TripArg(c).ok /\ SeatArg(c).ok
  \/ c.op = "cancel" /\ BookingArg(c).ok

\* the fields of a booking the two ledgers are compared on
BookingView(b) ==
  [booking_id |-> b.booking_id, trip_id |-> b.trip_id,
   num_seats |-> b.num_seats, total_fare |-> b.total_fare,
   status |-> b.status]

\* a ledger as the comparison sees it
LedgerView(self) ==
  [trips    |-> [i \in 1..Len(self.trips) |->
                   <<self.trips[i].trip_id, self.trips[i].seats_available>>],
   bookings |-> [i \in 1..Len(self.bookings) |-> BookingView(self.bookings[i])],
   next_booking_id |-> self.next_booking_id]

\* the two return values are the same success or the same failure
SameOutcome(a, b) ==
  /\ a.kind = b.kind
  /\ a.kind = "Booking" => BookingView(a.booking) = BookingView(b.booking)
  /\ a.kind = "bool" => a.val = b.val

\* C12 -- the console ledger and the web ledger are the same model: driven
\* from their seeded catalogs by the same calls with integer arguments, they
\* return the same outcome at every step and hold the same trips, bookings
\* and next_booking_id after it.
C12_SameModel ==
  /\ LedgerView(twin.system) = LedgerView(system)
  /\ IntegerCall(call) => SameOutcome(ret, twin.ret)

\* both ledgers have just cancelled the same booking, out of two
C12_Witness ==
  /\ IntegerCall(call) /\ call.op = "cancel"
  /\ ret = Bool(TRUE) /\ twin.ret = Bool(TRUE)
  /\ Len(system.bookings) >= 2 /\ Len(twin.system.bookings) >= 2

\* C13 -- a non-integer age, trip id, seat count or booking id is rejected by
\* the front end before the core is invoked, and the core never raises.
C13_RejectedBeforeCore ==
  /\ ret.kind # "ValueError"
  /\ (call.op \in {"book", "cancel"} /\ ~IntegerCall(call)) => ret = NotCalled

\* C14 -- when book_ticket fails for insufficient seats the failure carries
\* the seats actually available, which tells it apart from the other
\* failures, in both ledgers.
C14_CarriesAvailable ==
  [][ ( /\ ReachesBook(call')
        /\ TripArg(call').ok /\ SeatArg(call').ok
        /\ HasTrip(system.trips, TripArg(call').val)
        /\ SeatArg(call').val
             > GetTrip(system.trips, TripArg(call').val).seats_available )
      => ( /\ ret'.kind # "Booking"
           /\ out' = <<OnlySeatsMsg(
                GetTrip(system.trips, TripArg(call').val).seats_available,
                SeatArg(call').val)>> ) ]_vars

\* a trip without its seats_available
TripFrame(t) == [t EXCEPT !.seats_available = 0]

\* C15 -- frame of the catalog: the trips are always those with ids 1..5; no
\* step changes a trip field other than seats_available; a successful
\* book_ticket changes seats_available of exactly the booked trip, a
\* successful cancel_booking of exactly the cancelled booking's trip, and no
\* other call changes any; num_seats, trip_id and total_fare of a booking
\* never change.
C15_Frame ==
  /\ []({system.trips[i].trip_id : i \in 1..Len(system.trips)} = 1..5)
  /\ [][ /\ Len(system'.trips) = Len(system.trips)
         /\ \A i \in 1..Len(system.trips) :
              TripFrame(system'.trips[i]) = TripFrame(system.trips[i])
         /\ (call'.op = "book" /\ ret'.kind = "Booking")
              => \A i \in 1..Len(system.trips) :
                   (system'.trips[i] # system.trips[i])
                     <=> system.trips[i].trip_id = TripArg(call').val
         /\ (call'.op = "cancel" /\ ret' = Bool(TRUE))
              => \A i \in 1..Len(system.trips) :
                   (system'.trips[i] # system.trips[i])
                     <=> system.trips[i].trip_id
                           = GetBooking(system.bookings,
                                        BookingArg(call').val).trip_id
         /\ (ret'.kind # "Booking" /\ ret' # Bool(TRUE))
              => system'.trips = system.trips
         /\ \A i \in 1..Len(system.bookings) :
              LET b == system.bookings[i] IN
              /\ HasBooking(system'.bookings, b.booking_id)
              /\ LET c == GetBooking(system'.bookings, b.booking_id) IN
                 /\ c.num_seats = b.num_seats
                 /\ c.trip_id = b.trip_id
                 /\ c.total_fare = b.total_fare ]_vars

\* a booking has just been cancelled while another trip holds a CONFIRMED
\* booking
C15_Witness ==
  /\ call.op = "cancel" /\ ret = Bool(TRUE)
  /\ \E j \in 1..Len(system.bookings) :
       /\ system.bookings[j].status = "CONFIRMED"
       /\ system.bookings[j].trip_id
            # GetBooking(system.bookings, BookingArg(call).val).trip_id

\* two texts are equal up to the case of their letters
EqIgnoreCase(a, b) ==
  /\ Len(a) = Len(b)
  /\ \A i \in 1..Len(a) :
       \/ a[i] = b[i]
       \/ \E k \in 1..26 : {a[i], b[i]} = {UpperLetters[k], LowerLetters[k]}

\* the trip is one the search for (source, destination, date) asks for
Matches(t, source, destination, date) ==
  /\ EqIgnoreCase(t.source, source)
  /\ EqIgnoreCase(t.destination, destination)
  /\ t.date = date

\* the search of the seeded scenario
ScenarioCall ==
  SearchCall(<<"b", "h", "o", "p", "a", "l">>,
             <<"i", "n", "d", "o", "r", "e">>, Dec10)

\* C16 -- search_trips returns exactly the trips whose source and
\* destination equal the arguments up to letter case and whose date equals
\* the argument, in catalog order (the empty list when there is none), and
\* changes no ledger state; ("bhopal", "indore", "2025-12-10") finds trips 1
\* and 2.
C16_Search ==
  [][ call'.op = "search"
      => LET src  == strip(call'.source)
             dest == strip(call'.destination)
             date == strip(call'.date)
             rs   == ret'.trips
         IN  /\ ret'.kind = "Trips"
             /\ system' = system
             /\ \A i \in 1..Len(system.trips) :
                  Matches(system.trips[i], src, dest, date)
                    <=> \E j \in 1..Len(rs) : rs[j] = system.trips[i]
             /\ \A j \in 1..Len(rs) :
                  \E i \in 1..Len(system.trips) : rs[j] = system.trips[i]
             /\ \A j, k \in 1..Len(rs) :
                  j < k => TripIndex(system.trips, rs[j].trip_id)
                             < TripIndex(system.trips, rs[k].trip_id)
             /\ (\A i \in 1..Len(system.trips) :
                   ~Matches(system.trips[i], src, dest, date)) => rs = <<>>
             /\ call' = ScenarioCall
                  => [j \in 1..Len(rs) |-> rs[j].trip_id] = <<1, 2>> ]_vars

\* the lower-case search has just found both Bhopal-Indore trips, one of
\* them partly booked
C16_Witness ==
  /\ call = ScenarioCall
  /\ ret.kind = "Trips" /\ Len(ret.trips) = 2
  /\ ret.trips[1].source = Bhopal /\ ret.trips[2].destination = Indore
  /\ ret.trips[1].seats_available < ret.trips[1].total_seats

\* C18 -- referential integrity: every booking's trip_id resolves to a trip
\* of the catalog, so cancel_booking never cancels a booking whose trip is
\* missing (the branch that skips the seat restoration is not taken).
C18_TripsResolve ==
  /\ [](\A i \in 1..Len(system.bookings) :
          HasTrip(system.trips, system.bookings[i].trip_id))
  /\ [][ (call'.op = "cancel" /\ ret' = Bool(TRUE))
         => HasTrip(system.trips,
                    GetBooking(system.bookings, BookingArg(call').val).trip_id)
       ]_vars

\* a cancellation has just given a trip all its seats back
C18_Witness ==
  /\ call.op = "cancel" /\ ret = Bool(TRUE)
  /\ LET b == GetBooking(system.bookings, BookingArg(call).val) IN
     /\ HasTrip(system.trips, b.trip_id)
     /\ GetTrip(system.trips, b.trip_id).seats_available
          = GetTrip(system.trips, b.trip_id).total_seats

\* C19 -- no spurious failure: book_ticket with integer arguments, an
\* existing trip and 1 <= seats <= seats_available succeeds; so freed seats
\* can be booked again at once, also on a trip that was sold out.
C19_NoSpuriousFailure ==
  [][ ( /\ call'.op = "book" /\ IntegerCall(call')
        /\ HasTrip(system.trips, TripArg(call').val)
        /\ 1 <= SeatArg(call').val
        /\ SeatArg(call').val
             <= GetTrip(system.trips, TripArg(call').val).seats_available )
      => ( /\ ret'.kind = "Booking"
           /\ ret'.booking.num_seats = SeatArg(call').val ) ]_vars

\* a trip that one booking had sold out has been sold out again by a new
\* booking, after that booking was cancelled
C19_Witness ==
  /\ call.op = "book" /\ ret.kind = "Booking"
  /\ GetTrip(system.trips, ret.booking.trip_id).seats_available = 0
  /\ \E i \in 1..Len(system.bookings) :
       /\ system.bookings[i].status = "CANCELLED"
       /\ system.bookings[i].trip_id = ret.booking.trip_id
       /\ system.bookings[i].num_seats
            = GetTrip(system.trips, ret.booking.trip_id).total_seats

\* C20 -- in the web ledger a call with a non-integer trip id, seat count,
\* age or booking id whose conversion fails raises before any mutation:
\* bookings, next_booking_id and all seats_available stay as they were.
C20_ConversionFailsClean ==
  [][ (impl = "web" /\ ret' = ValueError)
      => ( /\ ~IntegerCall(call')
           /\ system' = system ) ]_vars

\* the web ledger has just raised on a non-integer age, for a trip and seat
\* count that could have been booked
C20_Witness ==
  /\ impl = "web" /\ ret = ValueError
  /\ call.op = "book" /\ ~int(call.age).ok
  /\ TripArg(call).ok /\ SeatArg(call).ok
  /\ HasTrip(system.trips, TripArg(call).val)
  /\ 1 <= SeatArg(call).val
  /\ SeatArg(call).val
       <= GetTrip(system.trips, TripArg(call).val).seats_available
  /\ Len(system.bookings) >= 1

\* no worker is inside a request
Quiescent == \A w \in Workers : workers[w].pc = "idle"

\* seats_available + CONFIRMED seats = total_seats for every trip
Conserved(self) ==
  \A i \in 1..Len(self.trips) :
    self.trips[i].seats_available
      + ConfirmedSeats(self.bookings, self.trips[i].trip_id)
    = self.trips[i].total_seats

\* C17 (as claimed) -- book_ticket is atomic also for overlapping /book and
\* /cancel requests on the one web ledger: overlapping requests neither break
\* seat conservation nor drive seats_available negative.
C17_AtomicUnderOverlap ==
  /\ \A i \in 1..Len(system.trips) : system.trips[i].seats_available >= 0
  /\ Quiescent => Conserved(system)

\* C17 (amended) -- book_ticket is atomic as long as the requests are served
\* one at a time: in a run in which no request has overlapped another,
\* seats_available stays within 0..total_seats and seat conservation holds
\* whenever no request is in progress.
C17_AtomicWhenSerial ==
  ~overlap
    => /\ \A i \in 1..Len(system.trips) :
            /\ system.trips[i].seats_available >= 0
            /\ system.trips[i].seats_available <= system.trips[i].total_seats
       /\ Quiescent => Conserved(system)

\* two requests served one after the other have booked and cancelled, and a
\* third has booked again
C17_Witness ==
  /\ ~overlap /\ Quiescent
  /\ \E i, j \in 1..Len(system.bookings) :
       /\ system.bookings[i].status = "CANCELLED"
       /\ system.bookings[j].status = "CONFIRMED"

====
